---- MODULE Spec2Model ----
(***************************************************************************)
(* A model of SfdxConfigAggregator (src/src/lib/config/                    *)
(* sfdxConfigAggregator.ts): the load/merge algorithm of loadProperties,   *)
(* with one action per code segment between two awaits, and the queries    *)
(* (getPropertyValue, getLocation, getPath, getInfo, getConfigInfo) as     *)
(* operators over the aggregator's fields.                                 *)
(***************************************************************************)
EXTENDS Integers, Sequences, FiniteSets, TLC

(***************************************************************************)
(* JavaScript values.  A value is a pair <<type, text>>, so that the       *)
(* boolean false, the empty string and undefined are three values.         *)
(***************************************************************************)
Undefined == <<"undefined", "">>

JsFalse == <<"boolean", "false">>

JsTrue == <<"boolean", "true">>

Str(s) == <<"string", s>>

\* _.isNil(v): v is null or undefined.
isNil(v) == v[1] \in {"undefined", "null"}

\* JavaScript truthiness of a scalar, as `if (x.get(key))` tests it.
Truthy(v) == ~isNil(v) /\ v # JsFalse /\ v # Str("")

(***************************************************************************)
(* Bounds and input sets.                                                  *)
(***************************************************************************)
\* Number of project workspaces a load may find itself in.
MaxProjects == 1

\* Number of loadProperties calls that may be in flight on the instance.
MaxInFlight == 2

ProjectRoots == <<"/ws1", "/ws2", "/ws3", "/ws4">>

Projects == 1 .. MaxProjects

\* SfdxConfig.getAllowedProperties(): the schema, a list of property metas.
Schema == << [key |-> "apiVersion"] >>

AllowedKeys == {Schema[i].key : i \in 1 .. Len(Schema)}

\* A key a settings file may hold although the schema does not list it.
UnknownKey == "totally-unknown-key"

Keys == AllowedKeys \cup {UnknownKey}

\* _.sortBy(info, 'key') orders by the key string: Keys in ascending order.
SortedKeys == <<"apiVersion", "totally-unknown-key">>

\* The characters of each schema key, for _.snakeCase.
KeyChars == [k \in AllowedKeys |->
               <<"a", "p", "i", "V", "e", "r", "s", "i", "o", "n">>]

\* Scalars a settings file may hold for a key.
FileValues == {JsFalse, JsTrue, Str(""), Str("alice")}

\* Values of an environment variable that is set (always strings).
EnvValues == {Str(""), Str("DEBUG")}

\* Names of the environment variables the process may have set.
EnvNames == {"SFDX_API_VERSION"}

ProcessEnvs == [EnvNames -> EnvValues \cup {Undefined}]

\* What a settings file may hold: a plain object over Keys, in which
\* Undefined marks a property the object lacks.  A key outside the schema,
\* when a file holds one, has one value.
FileContents == {f \in [Keys -> FileValues \cup {Undefined}] :
                   f[UnknownKey] \in {Undefined, Str("alice")}}

EmptyObject == [k \in Keys |-> Undefined]

\* Errors other than InvalidProjectWorkspace that a store may raise.
OtherErrors == {"EACCES"}

(***************************************************************************)
(* The SfdxConfig collaborator (./sfdxConfig, not part of the sources).    *)
(***************************************************************************)
NoStore == [defined |-> FALSE, path |-> "", contents |-> EmptyObject]

GlobalPath == "~/.sfdx/sfdx-config.json"

LocalPath(p) == ProjectRoots[p] \o "/.sfdx/sfdx-config.json"

\* SfdxConfig.create(options): a new store that has not been read yet.
NewStore(path) == [defined |-> TRUE, path |-> path, contents |-> EmptyObject]

\* store.read(): the contents become what the file holds.
ReadStore(store, onDisk) == [store EXCEPT !.contents = onDisk]

\* store.get(key)
StoreGet(store, key) == store.contents[key]

\* store.toObject()
toObject(store) == store.contents

(***************************************************************************)
(* State.  allowedProperties, localConfig, globalConfig, envVars and       *)
(* config are the fields of the aggregator.  instance tells whether        *)
(* create() has handed the aggregator out.  loads holds one record per     *)
(* loadProperties call in flight, oldest first: reload() has no guard, so  *)
(* a caller may start one while another is suspended, and all of them      *)
(* share the fields.  A record has the call that started it, the await at  *)
(* which it stands (pc), its local array configs, and attached: whether    *)
(* the store whose read() it awaits is still the one the field holds (a    *)
(* later setLocalConfig / setGlobalConfig puts a new store there, and the  *)
(* read then fills a store nothing refers to any more).                    *)
(* thrown is the error of the call settled last ("none" when it            *)
(* resolved).  localOpen tells how the latest opening of the local store   *)
(* ended, processEnv what process.env held when envVars was last set,      *)
(* alone whether the loads since the instance was last idle started one    *)
(* after the other had settled.  prior is a history variable: with history *)
(* set, the first reload of the instance records the fields it starts from *)
(* and keeps them until it succeeds or the next reload starts.             *)
(***************************************************************************)
VARIABLES instance, loads, thrown, localOpen, alone,
          allowedProperties, localConfig, globalConfig, envVars, config,
          processEnv, history, prior

vars == <<instance, loads, thrown, localOpen, alone,
          allowedProperties, localConfig, globalConfig, envVars, config,
          processEnv, history, prior>>

fields == <<allowedProperties, localConfig, globalConfig, envVars, config>>

(***************************************************************************)
(* propertyToEnvName: `SFDX_${_.snakeCase(property).toUpperCase()}`.       *)
(* Strings are handled as sequences of one-character strings.              *)
(***************************************************************************)
Lowers == <<"a", "b", "c", "d", "e", "f", "g", "h", "i", "j", "k", "l", "m",
            "n", "o", "p", "q", "r", "s", "t", "u", "v", "w", "x", "y", "z">>

Uppers == <<"A", "B", "C", "D", "E", "F", "G", "H", "I", "J", "K", "L", "M",
            "N", "O", "P", "Q", "R", "S", "T", "U", "V", "W", "X", "Y", "Z">>

IsLower(c) == \E i \in 1 .. Len(Lowers) : Lowers[i] = c

IsUpper(c) == \E i \in 1 .. Len(Uppers) : Uppers[i] = c

IndexIn(seq, c) == CHOOSE i \in 1 .. Len(seq) : seq[i] = c

\* String.prototype.toLowerCase / toUpperCase on one character.
toLowerChar(c) == IF IsUpper(c) THEN Lowers[IndexIn(Uppers, c)] ELSE c

toUpperChar(c) == IF IsLower(c) THEN Uppers[IndexIn(Lowers, c)] ELSE c

toUpperCase(cs) == [i \in 1 .. Len(cs) |-> toUpperChar(cs[i])]

\* lodash words() on a string of letters: a word starts at an upper-case
\* letter that follows a lower-case one (apiVersion: api, Version) or that
\* a lower-case one follows (XMLHttp: XML, Http).
WordStart(cs, i) ==
    \/ i = 1
    \/ /\ IsUpper(cs[i])
       /\ \/ IsLower(cs[i - 1])
          \/ i < Len(cs) /\ IsLower(cs[i + 1])

RECURSIVE snakeFrom(_, _)
snakeFrom(cs, i) ==
    IF i > Len(cs) THEN <<>>
    ELSE (IF i > 1 /\ WordStart(cs, i) THEN <<"_">> ELSE <<>>)
         \o <<toLowerChar(cs[i])>> \o snakeFrom(cs, i + 1)

\* _.snakeCase: the words, lower-cased, joined by "_".
snakeCase(cs) == snakeFrom(cs, 1)

RECURSIVE JoinChars(_)
JoinChars(cs) == IF cs = <<>> THEN "" ELSE Head(cs) \o JoinChars(Tail(cs))

\* A slip that upper-cases the key without splitting it into words.
propertyToEnvNameNoWords(property) ==
    "SFDX_" \o JoinChars(toUpperCase(KeyChars[property]))

propertyToEnvName(property) ==
    "SFDX_" \o JoinChars(toUpperCase(snakeCase(KeyChars[property])))

\* process.env[name]
EnvLookup(env, name) == IF name \in DOMAIN env THEN env[name] ELSE Undefined

(***************************************************************************)
(* _.merge on flat objects of scalars, and the fold of loadProperties.     *)
(***************************************************************************)
\* A slip that keeps the value already merged, as _.defaults does.
mergeKeepFirst(result, source) ==
    [k \in Keys |-> IF result[k] = Undefined THEN source[k] ELSE result[k]]

\* _.merge(result, source): every property the source has overwrites.
merge(result, source) ==
    [k \in Keys |-> IF source[k] = Undefined THEN result[k] ELSE source[k]]

RECURSIVE reduceMerge(_, _)
reduceMerge(cfgs, result) ==
    IF cfgs = <<>> THEN result
    ELSE reduceMerge(Tail(cfgs), merge(result, Head(cfgs)))

\* The reduce that fills envVars from process.env, one schema entry at a time.
RECURSIVE reduceEnv(_, _, _)
reduceEnv(props, env, obj) ==
    IF props = <<>> THEN obj
    ELSE LET property == Head(props)
             val == EnvLookup(env, propertyToEnvName(property.key))
         IN reduceEnv(Tail(props), env,
                      IF ~isNil(val) THEN [obj EXCEPT ![property.key] = val]
                      ELSE obj)

(***************************************************************************)
(* State after `new SfdxConfigAggregator()`: no field is set.  An unset    *)
(* store is NoStore, an unset object is EmptyObject, the unset schema is   *)
(* the empty list; create() hands the instance out only once its load has  *)
(* completed, so nothing overlaps with the load of create().               *)
(***************************************************************************)
NoPrior == [taken |-> FALSE,
            allowedProperties |-> <<>>, localConfig |-> NoStore,
            globalConfig |-> NoStore, envVars |-> EmptyObject,
            config |-> EmptyObject]

Constructed ==
    /\ instance = "constructed"
    /\ loads = <<>>
    /\ thrown = "none"
    /\ localOpen = "none"
    /\ alone = TRUE
    /\ allowedProperties = <<>>
    /\ localConfig = NoStore
    /\ globalConfig = NoStore
    /\ envVars = EmptyObject
    /\ config = EmptyObject
    /\ processEnv = [n \in EnvNames |-> Undefined]
    /\ prior = NoPrior

Init == Constructed /\ history = FALSE

InitHistory == Constructed /\ history = TRUE

\* The five fields as they are when a reload starts.
Snapshot == [taken |-> TRUE,
             allowedProperties |-> allowedProperties,
             localConfig |-> localConfig, globalConfig |-> globalConfig,
             envVars |-> envVars, config |-> config]

\* A loadProperties call that has just been entered: it awaits
\* SfdxConfig.create for the local store.
NewLoad(c) == [call |-> c, pc |-> "createLocal", configs |-> <<>>,
               attached |-> FALSE]

\* The loads without the i-th, which has settled.
Settled(i) == [j \in 1 .. Len(loads) - 1 |->
                 IF j < i THEN loads[j] ELSE loads[j + 1]]

\* A field has been given a new store: the loads that await the read() of
\* the store it held (those at the await `at`) now read a store of the past.
Detach(ls, at) == [j \in DOMAIN ls |->
                     IF ls[j].pc = at THEN [ls[j] EXCEPT !.attached = FALSE]
                     ELSE ls[j]]

(***************************************************************************)
(* create() and reload(): both run loadProperties, which first awaits      *)
(* SfdxConfig.create for the local store.                                  *)
(***************************************************************************)
create ==
    /\ instance = "constructed"
    /\ instance' = "creating"
    /\ loads' = <<NewLoad("create")>>
    /\ alone' = TRUE
    /\ UNCHANGED <<thrown, localOpen, fields, processEnv, history, prior>>

\* reload() tests nothing: it is accepted whenever a caller holds the
\* instance, also while earlier loads are suspended.
reload ==
    /\ instance = "available"
    /\ Len(loads) < MaxInFlight
    /\ loads' = Append(loads, NewLoad("reload"))
    /\ alone' = (loads = <<>>)
    /\ prior' = IF history THEN Snapshot ELSE NoPrior
    /\ history' = FALSE
    /\ UNCHANGED <<instance, thrown, localOpen, fields, processEnv>>

\* An error leaves the i-th loadProperties.  A rejected create() never
\* returns its instance, so the next create() starts from a new one; a
\* rejected reload() leaves the instance with the caller, its fields as
\* they are.
Throw(i, err) ==
    /\ thrown' = err
    /\ IF loads[i].call = "create"
       THEN /\ instance' = "constructed"
            /\ loads' = <<>>
            /\ localOpen' = "none"
            /\ allowedProperties' = <<>>
            /\ localConfig' = NoStore
            /\ globalConfig' = NoStore
            /\ envVars' = EmptyObject
            /\ config' = EmptyObject
            /\ processEnv' = [n \in EnvNames |-> Undefined]
            /\ UNCHANGED <<alone, history, prior>>
       ELSE /\ loads' = Settled(i)
            /\ UNCHANGED <<instance, localOpen, alone, fields, processEnv,
                           history, prior>>

\* Line 272: the local store opens; setLocalConfig; then SfdxConfig.create
\* for the global store is awaited.
LocalCreated ==
    \E i \in DOMAIN loads :
      /\ loads[i].pc = "createLocal"
      /\ \E p \in Projects : localConfig' = NewStore(LocalPath(p))
      /\ localOpen' = "opened"
      /\ loads' = [Detach(loads, "readLocal") EXCEPT ![i].pc = "createGlobal"]
      /\ UNCHANGED <<instance, thrown, alone, allowedProperties, globalConfig,
                     envVars, config, processEnv, history, prior>>

\* Lines 273-277: InvalidProjectWorkspace is swallowed; nothing is assigned.
LocalInvalidProjectWorkspace ==
    \E i \in DOMAIN loads :
      /\ loads[i].pc = "createLocal"
      /\ localOpen' = "InvalidProjectWorkspace"
      /\ loads' = [loads EXCEPT ![i].pc = "createGlobal"]
      /\ UNCHANGED <<instance, thrown, alone, fields, processEnv, history,
                     prior>>

\* Lines 273-276: any other error is rethrown.
LocalCreateError ==
    \E i \in DOMAIN loads :
      /\ loads[i].pc = "createLocal"
      /\ \E err \in OtherErrors : Throw(i, err)

\* Lines 279-294: the global store opens; setGlobalConfig,
\* setAllowedProperties, setEnvVars, then the read() of that store is
\* awaited.
GlobalCreated ==
    \E i \in DOMAIN loads :
      /\ loads[i].pc = "createGlobal"
      /\ globalConfig' = NewStore(GlobalPath)
      /\ allowedProperties' = Schema
      /\ \E env \in ProcessEnvs :
           /\ processEnv' = env
           /\ envVars' = reduceEnv(Schema, env, EmptyObject)
      /\ loads' = [Detach(loads, "readGlobal") EXCEPT
                     ![i].pc = "readGlobal", ![i].attached = TRUE]
      /\ UNCHANGED <<instance, thrown, localOpen, alone, localConfig, config,
                     history, prior>>

GlobalCreateError ==
    \E i \in DOMAIN loads :
      /\ loads[i].pc = "createGlobal"
      /\ \E err \in OtherErrors : Throw(i, err)

\* A slip that publishes the global object as the snapshot before the local
\* store has been read.
GlobalReadIncremental ==
    \E i \in DOMAIN loads :
      /\ loads[i].pc = "readGlobal"
      /\ \E onDisk \in FileContents :
           LET g == IF loads[i].attached THEN ReadStore(globalConfig, onDisk)
                    ELSE globalConfig
               cfgs == <<toObject(g)>>
           IN /\ globalConfig' = g
              /\ IF localConfig.defined
                 THEN /\ loads' = [loads EXCEPT ![i].pc = "readLocal",
                                                ![i].configs = cfgs,
                                                ![i].attached = TRUE]
                      /\ config' = reduceMerge(cfgs, EmptyObject)
                      /\ UNCHANGED <<instance, thrown, prior>>
                 ELSE /\ loads' = Settled(i)
                      /\ config' = reduceMerge(Append(cfgs, envVars),
                                               EmptyObject)
                      /\ instance' = "available"
                      /\ thrown' = "none"
                      /\ prior' = NoPrior
      /\ UNCHANGED <<localOpen, alone, allowedProperties, localConfig, envVars,
                     processEnv, history>>

\* Lines 294-306 when the awaited global read() has succeeded.  The store
\* read is the one this load created at line 279; this.globalConfig at line
\* 295 is the store the field holds now.  configs starts with its object;
\* with a local store, the read() of the store this.localConfig holds now is
\* awaited next, without one the merge runs at once.
GlobalRead ==
    \E i \in DOMAIN loads :
      /\ loads[i].pc = "readGlobal"
      /\ \E onDisk \in FileContents :
           LET g == IF loads[i].attached THEN ReadStore(globalConfig, onDisk)
                    ELSE globalConfig
               cfgs == <<toObject(g)>>
           IN /\ globalConfig' = g
              /\ IF localConfig.defined
                 THEN /\ loads' = [loads EXCEPT ![i].pc = "readLocal",
                                                ![i].configs = cfgs,
                                                ![i].attached = TRUE]
                      /\ UNCHANGED <<instance, thrown, config, prior>>
                 ELSE /\ loads' = Settled(i)
                      /\ config' = reduceMerge(Append(cfgs, envVars),
                                               EmptyObject)
                      /\ instance' = "available"
                      /\ thrown' = "none"
                      /\ prior' = NoPrior
      /\ UNCHANGED <<localOpen, alone, allowedProperties, localConfig, envVars,
                     processEnv, history>>

GlobalReadError ==
    \E i \in DOMAIN loads :
      /\ loads[i].pc = "readGlobal"
      /\ \E err \in OtherErrors : Throw(i, err)

\* Lines 299-306: the awaited local read() has succeeded; push the object of
\* the store this.localConfig holds now, push this.envVars, merge, setConfig.
LocalRead ==
    \E i \in DOMAIN loads :
      /\ loads[i].pc = "readLocal"
      /\ \E onDisk \in FileContents :
           LET l == IF loads[i].attached THEN ReadStore(localConfig, onDisk)
                    ELSE localConfig
           IN /\ localConfig' = l
              /\ config' = reduceMerge(
                             Append(Append(loads[i].configs, toObject(l)),
                                    envVars), EmptyObject)
      /\ loads' = Settled(i)
      /\ instance' = "available"
      /\ thrown' = "none"
      /\ prior' = NoPrior
      /\ UNCHANGED <<localOpen, alone, allowedProperties, globalConfig,
                     envVars, processEnv, history>>

LocalReadError ==
    \E i \in DOMAIN loads :
      /\ loads[i].pc = "readLocal"
      /\ \E err \in OtherErrors : Throw(i, err)

Next ==
    \/ create
    \/ reload
    \/ LocalCreated
    \/ LocalInvalidProjectWorkspace
    \/ LocalCreateError
    \/ GlobalCreated
    \/ GlobalCreateError
    \/ GlobalRead
    \/ GlobalReadError
    \/ LocalRead
    \/ LocalReadError

Spec == Init /\ [][Next]_vars

\* A caller that starts a reload only when no load is in flight, as section
\* 5 of the specification asks of callers.
reloadSerialised == loads = <<>> /\ reload

NextSerialised ==
    \/ create
    \/ reloadSerialised
    \/ LocalCreated
    \/ LocalInvalidProjectWorkspace
    \/ LocalCreateError
    \/ GlobalCreated
    \/ GlobalCreateError
    \/ GlobalRead
    \/ GlobalReadError
    \/ LocalRead
    \/ LocalReadError

SpecSerialised == Init /\ [][NextSerialised]_vars

\* The serialised caller, with the history of its first reload.
SpecHistory == InitHistory /\ [][NextSerialised]_vars

(***************************************************************************)
(* The queries.  A query that can throw yields [threw, ...]; threw is      *)
(* "none" or the name of the SfdxError.                                    *)
(***************************************************************************)
Null == <<"null", "">>

getAllowedProperties == allowedProperties

getLocalConfig == localConfig

getGlobalConfig == globalConfig

getConfig == config

\* new Map(_.entries(this.envVars)); Map.get yields undefined for no entry.
getEnvVars == envVars

\* A slip that asks the snapshot, not the schema, whether the key is known.
getPropertyValueByConfig(key) ==
    IF getConfig[key] # Undefined
    THEN [threw |-> "none", value |-> getConfig[key]]
    ELSE [threw |-> "UnknownConfigKey", value |-> Undefined]

getPropertyValue(key) ==
    IF \E i \in 1 .. Len(getAllowedProperties) :
           key = getAllowedProperties[i].key
    THEN [threw |-> "none", value |-> getConfig[key]]
    ELSE [threw |-> "UnknownConfigKey", value |-> Undefined]

\* A slip that tests the file layers for presence instead of truthiness.
getLocationByPresence(key) ==
    IF ~isNil(getEnvVars[key]) THEN Str("Environment")
    ELSE IF getLocalConfig.defined /\ ~isNil(StoreGet(getLocalConfig, key))
    THEN Str("Local")
    ELSE IF getGlobalConfig.defined /\ ~isNil(StoreGet(getGlobalConfig, key))
    THEN Str("Global")
    ELSE Null

getLocation(key) ==
    IF ~isNil(getEnvVars[key]) THEN Str("Environment")
    ELSE IF getLocalConfig.defined /\ Truthy(StoreGet(getLocalConfig, key))
    THEN Str("Local")
    ELSE IF getGlobalConfig.defined /\ Truthy(StoreGet(getGlobalConfig, key))
    THEN Str("Global")
    ELSE Null

\* _.get(store, `contents[${key}]`): undefined when the store is unset.
getContents(store, key) ==
    IF store.defined THEN store.contents[key] ELSE Undefined

getPath(key) ==
    IF ~isNil(envVars[key]) THEN Str("$" \o propertyToEnvName(key))
    ELSE IF ~isNil(getContents(getLocalConfig, key))
    THEN Str(getLocalConfig.path)
    ELSE IF ~isNil(getContents(getGlobalConfig, key))
    THEN Str(getGlobalConfig.path)
    ELSE Null

\* getLocation cannot throw; getPropertyValue, evaluated next, can, and then
\* no record is built.
getInfo(key) ==
    LET location == getLocation(key)
        v == getPropertyValue(key)
    IN IF v.threw # "none"
       THEN [threw |-> v.threw, key |-> key, location |-> Null,
             value |-> Undefined, path |-> Null]
       ELSE [threw |-> "none", key |-> key, location |-> location,
             value |-> v.value, path |-> getPath(key)]

\* _.keys(object), here in ascending order.
keys(object) == SelectSeq(SortedKeys, LAMBDA k : object[k] # Undefined)

\* _.map(_.keys(config), getInfo), then _.sortBy(info, 'key'); the first
\* getInfo that throws ends the call.
getConfigInfo ==
    LET ks == keys(getConfig)
        info == [i \in 1 .. Len(ks) |-> getInfo(ks[i])]
    IN IF \E i \in 1 .. Len(ks) : info[i].threw # "none"
       THEN [threw |-> "UnknownConfigKey", info |-> <<>>]
       ELSE [threw |-> "none", info |-> info]

(***************************************************************************)
(* Vocabulary of the properties.                                           *)
(***************************************************************************)
\* The last load has completed without an error.
Loaded == instance = "available" /\ loads = <<>> /\ thrown = "none"

\* The same, and the load did not overlap with another one.
LoadedAlone == Loaded /\ alone

\* A caller holds the instance: create() has returned it.
Accessible == instance = "available"

\* Section 6 of the specification: the variable name of each schema key.
SpecEnvName == [k \in AllowedKeys |-> "SFDX_API_VERSION"]

\* The value the process environment held for k when the load read it.
EnvironmentValue(k) ==
    IF k \in AllowedKeys THEN EnvLookup(processEnv, SpecEnvName[k])
    ELSE Undefined

LocalValue(k) == IF localConfig.defined THEN localConfig.contents[k]
                 ELSE Undefined

GlobalValue(k) == globalConfig.contents[k]

(***************************************************************************)
(* Properties.                                                             *)
(***************************************************************************)
\* The value precedence Environment > Local > Global over the raw layers.
PrecedenceValue(k) ==
    IF EnvironmentValue(k) # Undefined THEN EnvironmentValue(k)
    ELSE IF LocalValue(k) # Undefined THEN LocalValue(k)
    ELSE IF GlobalValue(k) # Undefined THEN GlobalValue(k)
    ELSE Undefined

\* C1 as stated: after any successful load, getPropertyValue(k) of every
\* allowed key k is the environment variable's value if it is set, else the
\* Local layer's raw value if a Local layer exists and contains k, else the
\* Global layer's raw value if it contains k, else undefined.
C1_PrecedenceAfterAnyLoad ==
    Loaded =>
      \A k \in AllowedKeys :
        getPropertyValue(k) = [threw |-> "none", value |-> PrecedenceValue(k)]

\* C1 amended: the same, after a successful load that did not overlap with
\* another load of the instance.
C1_Precedence ==
    LoadedAlone =>
      \A k \in AllowedKeys :
        getPropertyValue(k) = [threw |-> "none", value |-> PrecedenceValue(k)]

C1_Witness ==
    /\ LoadedAlone
    /\ EnvironmentValue("apiVersion") = Str("DEBUG")
    /\ LocalValue("apiVersion") = Str("alice")
    /\ GlobalValue("apiVersion") = JsTrue
    /\ getPropertyValue("apiVersion").value = Str("DEBUG")

\* The location cascade of key k over the layers.
LocationCascade(k) ==
    IF EnvironmentValue(k) # Undefined THEN Str("Environment")
    ELSE IF Truthy(LocalValue(k)) THEN Str("Local")
    ELSE IF Truthy(GlobalValue(k)) THEN Str("Global")
    ELSE Null

\* Local false under Global true; and a truthy Global value alone.
LocationConsequences(k) ==
    /\ ( /\ EnvironmentValue(k) = Undefined
         /\ LocalValue(k) = JsFalse
         /\ GlobalValue(k) = JsTrue )
       => /\ getLocation(k) = Str("Global")
          /\ getPropertyValue(k).value = JsFalse
    /\ ( /\ EnvironmentValue(k) = Undefined
         /\ LocalValue(k) = Undefined
         /\ Truthy(GlobalValue(k)) )
       => /\ getLocation(k) = Str("Global")
          /\ getPropertyValue(k).value = GlobalValue(k)

\* C2 as stated: after any successful load, getLocation(k) of every key k is
\* Environment if the Environment layer has a value for k, else Local if a
\* Local layer exists and holds a truthy value, else Global if Global holds
\* a truthy value, else null.  So with no environment value, Local false and
\* Global true, the location is Global while the value is false; and with
\* only a truthy Global value v, the value is v and the location is Global.
C2_LocationAfterAnyLoad ==
    Loaded =>
      /\ \A k \in Keys : getLocation(k) = LocationCascade(k)
      /\ \A k \in AllowedKeys : LocationConsequences(k)

\* C2 amended: the location cascade holds after any successful load; the
\* two consequences for the value hold after a successful load that did not
\* overlap with another load of the instance.
C2_Location ==
    /\ Loaded => \A k \in Keys : getLocation(k) = LocationCascade(k)
    /\ LoadedAlone => \A k \in AllowedKeys : LocationConsequences(k)

C2_Witness ==
    /\ LoadedAlone
    /\ EnvironmentValue("apiVersion") = Undefined
    /\ LocalValue("apiVersion") = JsFalse
    /\ GlobalValue("apiVersion") = JsTrue
    /\ getLocation("apiVersion") = Str("Global")
    /\ getPropertyValue("apiVersion").value = JsFalse

\* C3: after a successful load, getPath(k) of every key k is "$" and the
\* environment variable's name if the environment holds a value for k, else
\* the Local store's path if Local's raw contents contain k (false and the
\* empty string included), else the Global store's path if Global's raw
\* contents contain k, else null.
C3_Path ==
    Loaded =>
      \A k \in Keys :
        getPath(k) =
          IF EnvironmentValue(k) # Undefined THEN Str("$" \o SpecEnvName[k])
          ELSE IF LocalValue(k) # Undefined THEN Str(localConfig.path)
          ELSE IF GlobalValue(k) # Undefined THEN Str(GlobalPath)
          ELSE Null

C3_Witness ==
    /\ Loaded
    /\ EnvironmentValue("apiVersion") = Undefined
    /\ LocalValue("apiVersion") = Str("")
    /\ GlobalValue("apiVersion") = Str("alice")
    /\ getPath("apiVersion") = Str(LocalPath(1))

\* C4 as stated: whenever a caller holds the instance, getPropertyValue(k)
\* and getInfo(k) throw UnknownConfigKey exactly when k is not in the
\* schema: also for a key of the snapshot that a file brought in, and never
\* for an allowed key; after a successful load an allowed key without a
\* value in any layer yields undefined.
C4_UnknownKeyAfterAnyLoad ==
    Accessible =>
      \A k \in Keys :
        /\ getPropertyValue(k).threw =
             (IF k \in AllowedKeys THEN "none" ELSE "UnknownConfigKey")
        /\ getInfo(k).threw = getPropertyValue(k).threw
        /\ (k \in AllowedKeys /\ PrecedenceValue(k) = Undefined /\ Loaded)
             => getPropertyValue(k).value = Undefined

\* C4 amended: the same, where the allowed key without a value in any
\* layer yields undefined after a successful load that did not overlap with
\* another load of the instance.
C4_UnknownKey ==
    Accessible =>
      \A k \in Keys :
        /\ getPropertyValue(k).threw =
             (IF k \in AllowedKeys THEN "none" ELSE "UnknownConfigKey")
        /\ getInfo(k).threw = getPropertyValue(k).threw
        /\ (k \in AllowedKeys /\ PrecedenceValue(k) = Undefined
               /\ LoadedAlone)
             => getPropertyValue(k).value = Undefined

C4_Witness ==
    /\ LoadedAlone
    /\ PrecedenceValue("apiVersion") = Undefined
    /\ config[UnknownKey] = Str("alice")
    /\ config["apiVersion"] = Undefined
    /\ getPropertyValue(UnknownKey).threw = "UnknownConfigKey"
    /\ getInfo("apiVersion").threw = "none"

\* C5: after every load, create or reload, in which opening the Local layer
\* raised InvalidProjectWorkspace, getLocalConfig() is unset and value,
\* location and path of every key come from Environment and Global only.
C5_NoLocalAfterInvalidWorkspace ==
    (Loaded /\ localOpen = "InvalidProjectWorkspace") =>
      /\ ~getLocalConfig.defined
      /\ \A k \in AllowedKeys :
           getPropertyValue(k).value =
             (IF EnvironmentValue(k) # Undefined THEN EnvironmentValue(k)
              ELSE GlobalValue(k))
      /\ \A k \in Keys : getLocation(k) # Str("Local")
      /\ \A k \in Keys : getPath(k) \in {Null, Str(GlobalPath),
                                          Str("$SFDX_API_VERSION")}

\* C6: when a reload has failed with an error other than
\* InvalidProjectWorkspace, the error is the one raised and the five fields
\* are what they were when the reload started.
C6_FailedReloadLeavesState ==
    (instance = "available" /\ loads = <<>> /\ thrown # "none"
       /\ prior.taken) =>
      /\ thrown \in OtherErrors
      /\ Snapshot = prior

\* C7: after a successful load getConfigInfo() does not throw and returns
\* exactly one ConfigInfo for every key of the snapshot, schema key or not.
C7_ListsEverySnapshotKey ==
    Loaded =>
      /\ getConfigInfo.threw = "none"
      /\ \A k \in Keys :
           Cardinality({i \in 1 .. Len(getConfigInfo.info) :
                          getConfigInfo.info[i].key = k})
             = (IF config[k] # Undefined THEN 1 ELSE 0)

\* The layer a location names holds the key.
LayerContains(location, k) ==
    \/ location = Str("Environment") /\ EnvironmentValue(k) # Undefined
    \/ location = Str("Local") /\ LocalValue(k) # Undefined
    \/ location = Str("Global") /\ GlobalValue(k) # Undefined

\* C8 (I1): after a successful load, for every key of the snapshot
\* getLocation names a Source, never null, and that layer contains the key.
C8_LocationForEverySnapshotKey ==
    Loaded =>
      \A k \in Keys :
        config[k] # Undefined =>
          /\ getLocation(k) # Null
          /\ LayerContains(getLocation(k), k)

\* The raw value a key has in the layer a location names.
RawValueAt(location, k) ==
    IF location = Str("Environment") THEN EnvironmentValue(k)
    ELSE IF location = Str("Local") THEN LocalValue(k)
    ELSE IF location = Str("Global") THEN GlobalValue(k)
    ELSE Undefined

\* C9 (I3): after a successful load, for every allowed key of the snapshot
\* the value of getInfo(k) is the raw value k has in the layer that
\* getInfo(k).location names.
C9_ValueFromReportedLayer ==
    Loaded =>
      \A k \in AllowedKeys :
        config[k] # Undefined =>
          getInfo(k).value = RawValueAt(getInfo(k).location, k)

\* A step that ends a loadProperties call by its setConfig.
CompletesLoad ==
    /\ Len(loads') = Len(loads) - 1
    /\ instance' = "available"
    /\ thrown' = "none"

\* C10 as stated: the snapshot changes only in the final step of a
\* successful load, and at every suspension point of a reload in flight a
\* reader still sees the previous snapshot: no step that leaves a load
\* suspended changes the mapping.
C10_SnapshotUnchangedWhileInFlight ==
    [][config' # config => CompletesLoad /\ loads' = <<>>]_vars

\* C10 amended: the snapshot changes only in the final step of a successful
\* load, never in a step that leaves that load suspended or fails it; and
\* while a load is in flight that no other load of the instance overlaps,
\* no step changes the mapping a reader sees.
C10_SnapshotReplacedOnce ==
    [][/\ config' # config => CompletesLoad
       /\ (loads' # <<>> /\ alone') => config' = config]_vars

C10_Witness ==
    /\ Len(loads) = 1
    /\ alone
    /\ loads[1].pc = "readLocal"
    /\ loads[1].call = "reload"
    /\ config["apiVersion"] = Str("alice")
    /\ envVars["apiVersion"] = Undefined
    /\ globalConfig.contents["apiVersion"] = JsTrue
    /\ localConfig.contents["apiVersion"] = Undefined

====
